---- MODULE Spec2Model ----
(***************************************************************************)
(* Ledger queries of pkg/fab/channel/ledger.go: a query is fanned out to   *)
(* a list of targets, the raw proposal responses are filtered by status    *)
(* and by the verifier, and the surviving responses are decoded.  The      *)
(* configuration query additionally asks the verifier to Match the         *)
(* filtered set and unwraps the first response down to a ConfigEnvelope.   *)
(*                                                                         *)
(* One call is a short sequence of steps tracked by pc:                    *)
(*   Idle -> TargetsSelected -> Dispatched -> Filtered ->                  *)
(*     Decoded                               (the multi-target reads)      *)
(*     Matched | MatchFailed | Failed        (the configuration query)     *)
(*     Extracted | ExtractFailed | Panicked                                *)
(* Bytes are modelled by what proto.Unmarshal makes of them: a record      *)
(* whose msg field names the message the bytes encode.                     *)
(***************************************************************************)
EXTENDS Integers, Sequences, FiniteSets, TLC

VARIABLES chName, pc, op, args, candidates, maxTargets, targets, verifier,
          dispatched, raw, tprs, errs, result

vars == <<chName, pc, op, args, candidates, maxTargets, targets, verifier,
          dispatched, raw, tprs, errs, result>>

(***************************************************************************)
(* Bounds of the model.                                                    *)
(***************************************************************************)
\* Peers a read query can be sent to.
NumPeers == 3
\* Longest candidate list handed to the target selector.
MaxCandidates == 2
\* Largest maxTargets option.
MaxMaxTargets == 2
\* Largest minResponses option.
MaxMinResponses == 2

(***************************************************************************)
(* Program constants.                                                      *)
(***************************************************************************)
\* http.StatusOK
StatusOK == 200
\* common.HeaderType_CONFIG
HeaderType_CONFIG == 1

Statuses == {StatusOK, 500}
HeaderTypes == {HeaderType_CONFIG, 3}
Configs == {"cfgA", "cfgB"}
ChannelNames == {"", "mychannel"}

Peers == 1..NumPeers
NoTarget == 0

Min(a, b) == IF a <= b THEN a ELSE b

RECURSIVE SeqsOver(_, _)
\* The sequences of exactly n pairwise distinct elements of S.
SeqsOver(S, n) ==
    IF n = 0 THEN {<<>>}
    ELSE UNION {{Append(s, x) : x \in S \ {s[i] : i \in 1..Len(s)}} : s \in SeqsOver(S, n - 1)}

IsInjective(s) == \A i, j \in 1..Len(s) : i # j => s[i] # s[j]
Range(s) == {s[i] : i \in 1..Len(s)}

(***************************************************************************)
(* Errors.  An error value is a sequence of entries; nil is the empty      *)
(* sequence, a plain error has one entry, a multi.Errors has one entry     *)
(* per collected error.  An entry wrapping another error keeps it as       *)
(* cause.                                                                  *)
(***************************************************************************)
NilErr == <<>>
ErrEntry(kind, from, code, cause) ==
    [kind |-> kind, from |-> from, code |-> code, cause |-> cause]
\* errors.New(msg)
NewError(msg) == <<ErrEntry(msg, NoTarget, 0, NilErr)>>
\* errors.WithMessage(err, msg) and errors.Wrap(err, msg)
WithMessage(err, msg) == <<ErrEntry(msg, NoTarget, 0, err)>>

\* multi.Append(errs, err): the aggregated error extended by the entries of err.
multiAppend(es, err) == es \o err

(***************************************************************************)
(* Bytes and proto.Unmarshal.                                              *)
(***************************************************************************)
Garbage == [msg |-> "garbage"]
NilHeader == [nil |-> TRUE]
NilBlockData == [nil |-> TRUE]

mkConfigEnvelope(c) == [msg |-> "ConfigEnvelope", Config |-> c]
mkChannelHeader(t) == [msg |-> "ChannelHeader", Type |-> t]
mkHeader(ch) == [ChannelHeader |-> ch]
mkPayload(h, d) == [msg |-> "Payload", Header |-> h, Data |-> d]
mkEnvelope(p) == [msg |-> "Envelope", Payload |-> p]
mkBlock(entries) == [msg |-> "Block", Data |-> [Data |-> entries]]
BlockWithoutData == [msg |-> "Block", Data |-> NilBlockData]

\* proto.Unmarshal(b, &T{}) succeeds when b encodes a T.
Unmarshals(b, T) == b.msg = T
\* The message proto.Unmarshal fills in: the fields of b without the wire tag.
Unmarshal(b) == [f \in DOMAIN b \ {"msg"} |-> b[f]]

ConfigData == {Garbage} \cup {mkConfigEnvelope(c) : c \in Configs}

\* The first data entries a configuration block is tried with.
ConfigEntries ==
    {Garbage,
     mkEnvelope(Garbage),
     mkEnvelope(mkPayload(NilHeader, mkConfigEnvelope("cfgA"))),
     mkEnvelope(mkPayload(mkHeader(Garbage), mkConfigEnvelope("cfgA")))}
    \cup {mkEnvelope(mkPayload(mkHeader(mkChannelHeader(HeaderType_CONFIG)), d)) :
             d \in ConfigData}
    \cup {mkEnvelope(mkPayload(mkHeader(mkChannelHeader(t)), d)) :
             t \in HeaderTypes \ {HeaderType_CONFIG},
             d \in {Garbage, mkConfigEnvelope("cfgA")}}

\* The payloads a target answers the configuration query with.
ConfigBlockPayloads ==
    {Garbage, BlockWithoutData, mkBlock(<<>>)} \cup {mkBlock(<<e>>) : e \in ConfigEntries}

ReadOps == {"QueryInfo", "QueryBlock", "QueryBlockByHash", "QueryBlockByTxID",
            "QueryTransaction", "QueryInstantiatedChaincodes"}
ConfigOp == "QueryConfigBlock"

\* The message each read query decodes its payloads as.
MessageOf(o) ==
    CASE o = "QueryInfo" -> "BlockchainInfo"
      [] o = "QueryTransaction" -> "ProcessedTransaction"
      [] o = "QueryInstantiatedChaincodes" -> "ChaincodeQueryResponse"
      [] OTHER -> "Block"

\* A well-formed answer of target p to query o: the configuration block, or a
\* message of the queried kind whose body is p's own.
GoodPayload(o, p) ==
    IF o = ConfigOp
    THEN mkBlock(<<mkEnvelope(mkPayload(mkHeader(mkChannelHeader(HeaderType_CONFIG)),
                                        mkConfigEnvelope("cfgA")))>>)
    ELSE [msg |-> MessageOf(o), body |-> p]

\* The payloads target p answers query o with.
PayloadsOf(o, p) ==
    IF o = ConfigOp THEN ConfigBlockPayloads ELSE {Garbage, GoodPayload(o, p)}

(***************************************************************************)
(* Proposal responses and the verifier.                                    *)
(***************************************************************************)
\* fab.TransactionProposalResponse; Valid records whether the response passes
\* a verifier's Verify.
Response(e, s, v, p) == [Endorser |-> e, Status |-> s, Valid |-> v, Payload |-> p]

NilVerifier == [kind |-> "nil", MinResponses |-> 0]
\* No verifier, the no-op verifier and the quorum verifiers.
Verifiers ==
    {NilVerifier, [kind |-> "any", MinResponses |-> 0]}
    \cup {[kind |-> "quorum", MinResponses |-> m] : m \in 0..MaxMinResponses}

\* ResponseVerifier.Verify: nil (TRUE) or an error (FALSE).
Verify(v, response) == response.Valid

AllSamePayload(rs) == \A i \in 1..Len(rs) : rs[i].Payload = rs[1].Payload

\* ResponseVerifier.Match.  The quorum verifier fails on an empty set, on fewer
\* than MinResponses responses and on responses that disagree; the no-op verifier
\* accepts every set.
Match(v, rs) ==
    IF v.kind = "any" THEN NilErr
    ELSE IF Len(rs) = 0 THEN NewError("no responses to match")
    ELSE IF Len(rs) < v.MinResponses THEN NewError("minimum responses not reached")
    ELSE IF ~AllSamePayload(rs) THEN NewError("responses do not match")
    ELSE NilErr

(***************************************************************************)
(* The target selector and the transport.                                  *)
(***************************************************************************)
\* A selector drawing max times from the candidates, with repetition.
randomMaxTargetsRepeating(cands, max) ==
    IF Len(cands) = 0 THEN {<<>>} ELSE [1..max -> Range(cands)]

\* randomMaxTargets(targets, max): the lists the selector may return, min(max, N)
\* pairwise distinct candidates in a random order.
randomMaxTargets(cands, max) == SeqsOver(Range(cands), Min(max, Len(cands)))

TransportFailure == [transport |-> "failed"]
BadStatusAnswers(o, p) ==
    {Response(p, s, TRUE, GoodPayload(o, p)) : s \in Statuses \ {StatusOK}}
\* What target p may answer query o with: no answer at all, a bad status, a
\* response the verifier rejects, or a status-200 response with any payload.
Answers(o, p) ==
    {TransportFailure}
    \cup BadStatusAnswers(o, p)
    \cup {Response(p, StatusOK, FALSE, GoodPayload(o, p))}
    \cup {Response(p, StatusOK, TRUE, pl) : pl \in PayloadsOf(o, p)}

RECURSIVE AnswerLists(_, _)
\* One answer per target of ts, in the order of ts.
AnswerLists(o, ts) ==
    IF ts = <<>> THEN {<<>>}
    ELSE {<<a>> \o rest : a \in Answers(o, Head(ts)), rest \in AnswerLists(o, Tail(ts))}

RECURSIVE SendProposalFrom(_, _, _, _, _)
SendProposalFrom(ts, answer, i, rs, es) ==
    IF i > Len(ts) THEN [responses |-> rs, errs |-> es]
    ELSE IF answer[i] = TransportFailure
         THEN SendProposalFrom(ts, answer, i + 1, rs,
                  multiAppend(es, <<ErrEntry("transport", ts[i], 0, NilErr)>>))
         ELSE SendProposalFrom(ts, answer, i + 1, Append(rs, answer[i]), es)

\* txn.SendProposal(reqCtx, tp, targets): per target a response or an error that
\* names the target.
SendProposal(ts, answer) == SendProposalFrom(ts, answer, 1, <<>>, NilErr)

(***************************************************************************)
(* filterResponses.  filteredResponses shares the backing array of         *)
(* responses (responses[:0]): arr is that array, n the length of           *)
(* filteredResponses, i the position of the range loop.                    *)
(***************************************************************************)
VerifyError(response) == ErrEntry("failed to verify response", response.Endorser, 0, NilErr)
BadStatusError(response) == ErrEntry("bad status", response.Endorser, response.Status, NilErr)

RECURSIVE filterLoop(_, _, _, _, _)
filterLoop(arr, n, es, v, i) ==
    IF i > Len(arr) THEN [tprs |-> SubSeq(arr, 1, n), errs |-> es]
    ELSE LET response == arr[i] IN
         IF response.Status = StatusOK
         THEN IF v # NilVerifier /\ ~Verify(v, response)
              THEN filterLoop(arr, n, multiAppend(es, <<VerifyError(response)>>), v, i + 1)
              ELSE filterLoop([arr EXCEPT ![n + 1] = response], n + 1, es, v, i + 1)
         ELSE filterLoop(arr, n, multiAppend(es, <<BadStatusError(response)>>), v, i + 1)

RECURSIVE filterLoopAbort(_, _, _, _, _)
\* filterResponses returning at the first rejected response.
filterLoopAbort(arr, n, es, v, i) ==
    IF i > Len(arr) THEN [tprs |-> SubSeq(arr, 1, n), errs |-> es]
    ELSE LET response == arr[i] IN
         IF response.Status = StatusOK
         THEN IF v # NilVerifier /\ ~Verify(v, response)
              THEN [tprs |-> SubSeq(arr, 1, n), errs |-> multiAppend(es, <<VerifyError(response)>>)]
              ELSE filterLoopAbort([arr EXCEPT ![n + 1] = response], n + 1, es, v, i + 1)
         ELSE [tprs |-> SubSeq(arr, 1, n), errs |-> multiAppend(es, <<BadStatusError(response)>>)]

filterResponsesAbort(responses, es, v) == filterLoopAbort(responses, 0, es, v, 1)

RECURSIVE filterLoopSilent(_, _, _, _, _)
\* filterResponses dropping a rejected response without recording an error.
filterLoopSilent(arr, n, es, v, i) ==
    IF i > Len(arr) THEN [tprs |-> SubSeq(arr, 1, n), errs |-> es]
    ELSE LET response == arr[i] IN
         IF response.Status = StatusOK /\ (v = NilVerifier \/ Verify(v, response))
         THEN filterLoopSilent([arr EXCEPT ![n + 1] = response], n + 1, es, v, i + 1)
         ELSE filterLoopSilent(arr, n, es, v, i + 1)

filterResponsesSilent(responses, es, v) == filterLoopSilent(responses, 0, es, v, 1)

filterResponses(responses, es, v) == filterLoop(responses, 0, es, v, 1)

(***************************************************************************)
(* Decoding of the filtered responses.                                     *)
(***************************************************************************)
UnmarshalFailed == WithMessage(NewError("proto"), "unmarshal of transaction proposal response failed")
Decoded(value) == [value |-> value, err |-> NilErr]
NotDecoded(err) == [value |-> [nil |-> TRUE], err |-> err]

createBlockchainInfo(tpr) ==
    IF ~Unmarshals(tpr.Payload, "BlockchainInfo") THEN NotDecoded(UnmarshalFailed)
    ELSE Decoded(Unmarshal(tpr.Payload))

createCommonBlock(tpr) ==
    IF ~Unmarshals(tpr.Payload, "Block") THEN NotDecoded(UnmarshalFailed)
    ELSE Decoded(Unmarshal(tpr.Payload))

createProcessedTransaction(tpr) ==
    IF ~Unmarshals(tpr.Payload, "ProcessedTransaction") THEN NotDecoded(UnmarshalFailed)
    ELSE Decoded(Unmarshal(tpr.Payload))

createChaincodeQueryResponse(tpr) ==
    IF ~Unmarshals(tpr.Payload, "ChaincodeQueryResponse") THEN NotDecoded(UnmarshalFailed)
    ELSE Decoded(Unmarshal(tpr.Payload))

\* errors.WithMessage(err, "From target: "+tpr.Endorser)
FromTarget(err, tpr) == <<ErrEntry("From target", tpr.Endorser, 0, err)>>

RECURSIVE QueryInfoLoop(_, _, _, _)
\* The loop of QueryInfo: each artifact is tagged with its endorser and status.
QueryInfoLoop(rs, i, responses, es) ==
    IF i > Len(rs) THEN [responses |-> responses, errs |-> es]
    ELSE LET r == createBlockchainInfo(rs[i]) IN
         IF r.err # NilErr
         THEN QueryInfoLoop(rs, i + 1, responses, multiAppend(es, FromTarget(r.err, rs[i])))
         ELSE QueryInfoLoop(rs, i + 1,
                  Append(responses, [Endorser |-> rs[i].Endorser, Status |-> rs[i].Status,
                                     BCI |-> r.value]), es)

RECURSIVE getConfigBlocksLoop(_, _, _, _)
getConfigBlocksLoop(rs, i, responses, es) ==
    IF i > Len(rs) THEN [responses |-> responses, errs |-> es]
    ELSE LET r == createCommonBlock(rs[i]) IN
         IF r.err # NilErr
         THEN getConfigBlocksLoop(rs, i + 1, responses, multiAppend(es, FromTarget(r.err, rs[i])))
         ELSE getConfigBlocksLoop(rs, i + 1, Append(responses, r.value), es)

RECURSIVE getConfigBlocksLoopStop(_, _, _, _)
\* getConfigBlocks giving up the blocks decoded so far at the first failure.
getConfigBlocksLoopStop(rs, i, responses, es) ==
    IF i > Len(rs) THEN [responses |-> responses, errs |-> es]
    ELSE LET r == createCommonBlock(rs[i]) IN
         IF r.err # NilErr
         THEN [responses |-> <<>>, errs |-> multiAppend(es, FromTarget(r.err, rs[i]))]
         ELSE getConfigBlocksLoopStop(rs, i + 1, Append(responses, r.value), es)

getConfigBlocksStop(rs) == getConfigBlocksLoopStop(rs, 1, <<>>, NilErr)

getConfigBlocks(rs) == getConfigBlocksLoop(rs, 1, <<>>, NilErr)

RECURSIVE QueryTransactionLoop(_, _, _, _)
QueryTransactionLoop(rs, i, responses, es) ==
    IF i > Len(rs) THEN [responses |-> responses, errs |-> es]
    ELSE LET r == createProcessedTransaction(rs[i]) IN
         IF r.err # NilErr
         THEN QueryTransactionLoop(rs, i + 1, responses, multiAppend(es, FromTarget(r.err, rs[i])))
         ELSE QueryTransactionLoop(rs, i + 1, Append(responses, r.value), es)

RECURSIVE QueryInstantiatedChaincodesLoop(_, _, _, _)
QueryInstantiatedChaincodesLoop(rs, i, responses, es) ==
    IF i > Len(rs) THEN [responses |-> responses, errs |-> es]
    ELSE LET r == createChaincodeQueryResponse(rs[i]) IN
         IF r.err # NilErr
         THEN QueryInstantiatedChaincodesLoop(rs, i + 1, responses,
                  multiAppend(es, FromTarget(r.err, rs[i])))
         ELSE QueryInstantiatedChaincodesLoop(rs, i + 1, Append(responses, r.value), es)

\* What a call returns: the artifacts, the error, and whether it panicked instead.
Returned(artifacts, err) == [artifacts |-> artifacts, err |-> err, panicked |-> FALSE]
Panic == [artifacts |-> <<>>, err |-> NilErr, panicked |-> TRUE]
NoResult == [artifacts |-> <<>>, err |-> NilErr, panicked |-> FALSE]

\* The part of a read query after queryChaincode has returned (rs, es).
DecodeResponses(o, rs, es) ==
    CASE o = "QueryInfo" ->
           LET r == QueryInfoLoop(rs, 1, <<>>, es) IN Returned(r.responses, r.errs)
      [] o = "QueryTransaction" ->
           LET r == QueryTransactionLoop(rs, 1, <<>>, es) IN Returned(r.responses, r.errs)
      [] o = "QueryInstantiatedChaincodes" ->
           LET r == QueryInstantiatedChaincodesLoop(rs, 1, <<>>, es)
           IN Returned(r.responses, r.errs)
      [] OTHER ->
           LET r == getConfigBlocks(rs) IN Returned(r.responses, multiAppend(es, r.errs))

(***************************************************************************)
(* createConfigEnvelope(data): out is "ok", "err" or "panic".              *)
(***************************************************************************)
EnvelopeResult(out, cfg, err) == [out |-> out, cfg |-> cfg, err |-> err]
NoConfig == [nil |-> TRUE]

createConfigEnvelopeUntyped(data) ==
    IF ~Unmarshals(data, "Envelope")
    THEN EnvelopeResult("err", NoConfig,
             WithMessage(NewError("proto"), "unmarshal envelope from config block failed"))
    ELSE LET envelope == Unmarshal(data) IN
    IF ~Unmarshals(envelope.Payload, "Payload")
    THEN EnvelopeResult("err", NoConfig,
             WithMessage(NewError("proto"), "unmarshal payload from envelope failed"))
    ELSE LET payload == Unmarshal(envelope.Payload) IN
    IF payload.Header = NilHeader THEN EnvelopeResult("panic", NoConfig, NilErr)
    ELSE IF ~Unmarshals(payload.Header.ChannelHeader, "ChannelHeader")
    THEN EnvelopeResult("err", NoConfig,
             WithMessage(NewError("proto"), "unmarshal payload from envelope failed"))
    ELSE IF ~Unmarshals(payload.Data, "ConfigEnvelope")
    THEN EnvelopeResult("err", NoConfig,
             WithMessage(NewError("proto"), "unmarshal config envelope failed"))
    ELSE EnvelopeResult("ok", Unmarshal(payload.Data), NilErr)

createConfigEnvelope(data) ==
    IF ~Unmarshals(data, "Envelope")
    THEN EnvelopeResult("err", NoConfig,
             WithMessage(NewError("proto"), "unmarshal envelope from config block failed"))
    ELSE LET envelope == Unmarshal(data) IN
    IF ~Unmarshals(envelope.Payload, "Payload")
    THEN EnvelopeResult("err", NoConfig,
             WithMessage(NewError("proto"), "unmarshal payload from envelope failed"))
    ELSE LET payload == Unmarshal(envelope.Payload) IN
    \* payload.Header.ChannelHeader on a nil Header
    IF payload.Header = NilHeader THEN EnvelopeResult("panic", NoConfig, NilErr)
    ELSE IF ~Unmarshals(payload.Header.ChannelHeader, "ChannelHeader")
    THEN EnvelopeResult("err", NoConfig,
             WithMessage(NewError("proto"), "unmarshal payload from envelope failed"))
    ELSE LET channelHeader == Unmarshal(payload.Header.ChannelHeader) IN
    IF channelHeader.Type # HeaderType_CONFIG
    THEN EnvelopeResult("err", NoConfig, NewError("block must be of type 'CONFIG'"))
    ELSE IF ~Unmarshals(payload.Data, "ConfigEnvelope")
    THEN EnvelopeResult("err", NoConfig,
             WithMessage(NewError("proto"), "unmarshal config envelope failed"))
    ELSE EnvelopeResult("ok", Unmarshal(payload.Data), NilErr)

\* block, _ := createCommonBlock(tprs[0]); createConfigEnvelope(block.Data.Data[0]).
\* tprs[0] of an empty list, block.Data of a nil block, Data.Data of a nil Data and
\* Data.Data[0] of an empty list panic.
ExtractFirst(rs) ==
    IF Len(rs) = 0 THEN EnvelopeResult("panic", NoConfig, NilErr)
    ELSE LET b == createCommonBlock(rs[1]) IN
    IF b.err # NilErr THEN EnvelopeResult("panic", NoConfig, NilErr)
    ELSE LET block == b.value IN
    IF block.Data = NilBlockData THEN EnvelopeResult("panic", NoConfig, NilErr)
    ELSE IF Len(block.Data.Data) = 0 THEN EnvelopeResult("panic", NoConfig, NilErr)
    ELSE createConfigEnvelope(block.Data.Data[1])

(***************************************************************************)
(* The calls.                                                              *)
(***************************************************************************)
NoArgs == [blockHash |-> "nil", txID |-> ""]
\* The identifiers a query is called with: a nil, an empty or a 32-byte hash, an
\* empty or a non-empty transaction id.
ArgsOf(o) ==
    CASE o = "QueryBlockByHash" ->
           {[blockHash |-> h, txID |-> ""] : h \in {"nil", "empty", "hash"}}
      [] o \in {"QueryBlockByTxID", "QueryTransaction"} ->
           {[blockHash |-> "nil", txID |-> t] : t \in {"", "tx1"}}
      [] OTHER -> {NoArgs}

ReadVerifiers == {NilVerifier, [kind |-> "any", MinResponses |-> 0]}

RECURSIVE Ascending(_, _)
\* The elements of S from lo upwards, in ascending order.
Ascending(S, lo) ==
    IF lo > NumPeers THEN <<>>
    ELSE IF lo \in S THEN <<lo>> \o Ascending(S, lo + 1) ELSE Ascending(S, lo + 1)

Reverse(s) == [i \in 1..Len(s) |-> s[Len(s) + 1 - i]]

\* The target lists a read query is called with.
ReadTargets == UNION {{Ascending(S, 1), Reverse(Ascending(S, 1))} : S \in SUBSET Peers}

\* The checks without the one on the target list.
RequiredButTargets(o, a, ts) ==
    CASE o = "QueryBlockByHash" /\ a.blockHash = "nil" -> NewError("blockHash is required")
      [] o = "QueryBlockByTxID" /\ a.txID = "" -> NewError("txID is required")
      [] OTHER -> NilErr

\* The check a query makes before it builds its request: nil, or the error it
\* returns.
Required(o, a, ts) ==
    CASE o = "QueryBlockByHash" /\ a.blockHash = "nil" -> NewError("blockHash is required")
      [] o = "QueryBlockByTxID" /\ a.txID = "" -> NewError("txID is required")
      [] o = ConfigOp /\ Len(ts) = 0 -> NewError("target(s) required")
      [] OTHER -> NilErr

\* The failures of queryChaincode before the proposal is sent.
SetupFailures ==
    {NewError("failed get client context from reqContext for signProposal"),
     WithMessage(NewError("header"), "creation of transaction ID failed"),
     WithMessage(NewError("proposal"), "NewProposal failed")}

NoRaw == [responses |-> <<>>, errs |-> NilErr]

\* NewLedger("mychannel")
Init ==
    /\ chName = "mychannel"
    /\ pc = "Idle"
    /\ op = "none"
    /\ args = NoArgs
    /\ candidates = <<>>
    /\ maxTargets = 0
    /\ targets = <<>>
    /\ verifier = NilVerifier
    /\ dispatched = FALSE
    /\ raw = NoRaw
    /\ tprs = <<>>
    /\ errs = NilErr
    /\ result = NoResult

\* NewLedger(chName): a ledger client for another channel name; no name is refused.
NewLedger ==
    /\ pc = "Idle"
    /\ \E name \in ChannelNames \ {chName} : chName' = name
    /\ UNCHANGED <<pc, op, args, candidates, maxTargets, targets, verifier,
                   dispatched, raw, tprs, errs, result>>

\* A caller starts a read query on its own target list.
CallRead ==
    /\ pc = "Idle"
    /\ \E o \in ReadOps : \E a \in ArgsOf(o) : \E ts \in ReadTargets : \E v \in ReadVerifiers :
         /\ op' = o
         /\ args' = a
         /\ targets' = ts
         /\ verifier' = v
    /\ pc' = "TargetsSelected"
    /\ UNCHANGED <<chName, candidates, maxTargets, dispatched, raw, tprs, errs, result>>

\* The configuration retriever picks up to maxTargets of its peers and calls
\* QueryConfigBlock with them.
SelectTargets ==
    /\ pc = "Idle"
    /\ \E n \in 0..MaxCandidates : \E k \in 0..MaxMaxTargets : \E v \in Verifiers :
         /\ candidates' = [i \in 1..n |-> i]
         /\ maxTargets' = k
         /\ verifier' = v
         /\ targets' \in randomMaxTargets(candidates', k)
    /\ op' = ConfigOp
    /\ args' = NoArgs
    /\ pc' = "TargetsSelected"
    /\ UNCHANGED <<chName, dispatched, raw, tprs, errs, result>>

\* The query returns its validation error without building a request.
RejectInput ==
    /\ pc = "TargetsSelected"
    /\ Required(op, args, targets) # NilErr
    /\ result' = Returned(<<>>, Required(op, args, targets))
    /\ pc' = "Failed"
    /\ UNCHANGED <<chName, op, args, candidates, maxTargets, targets, verifier,
                   dispatched, raw, tprs, errs>>

\* queryChaincode returns (nil, err) before txn.SendProposal: a read query then
\* returns no artifact and err, the configuration query "queryChaincode failed".
SetupFails ==
    /\ pc = "TargetsSelected"
    /\ Required(op, args, targets) = NilErr
    /\ \E f \in SetupFailures :
         /\ errs' = f
         /\ result' = IF op = ConfigOp
                      THEN Returned(<<>>, WithMessage(f, "queryChaincode failed"))
                      ELSE DecodeResponses(op, <<>>, f)
    /\ pc' = IF op = ConfigOp THEN "Failed" ELSE "Decoded"
    /\ UNCHANGED <<chName, op, args, candidates, maxTargets, targets, verifier,
                   dispatched, raw, tprs>>

\* queryChaincode sends the proposal: every target answers or fails.
Dispatch ==
    /\ pc = "TargetsSelected"
    /\ Required(op, args, targets) = NilErr
    /\ \E answer \in AnswerLists(op, targets) : raw' = SendProposal(targets, answer)
    /\ dispatched' = TRUE
    /\ pc' = "Dispatched"
    /\ UNCHANGED <<chName, op, args, candidates, maxTargets, targets, verifier,
                   tprs, errs, result>>

\* queryChaincode returns filterResponses(tprs, errs, verifier).
Filter ==
    /\ pc = "Dispatched"
    /\ LET f == filterResponses(raw.responses, raw.errs, verifier) IN
         /\ tprs' = f.tprs
         /\ errs' = f.errs
    /\ pc' = "Filtered"
    /\ UNCHANGED <<chName, op, args, candidates, maxTargets, targets, verifier,
                   dispatched, raw, result>>

\* A read query decodes every filtered response and returns.
Decode ==
    /\ pc = "Filtered"
    /\ op \in ReadOps
    /\ result' = DecodeResponses(op, tprs, errs)
    /\ pc' = "Decoded"
    /\ UNCHANGED <<chName, op, args, candidates, maxTargets, targets, verifier,
                   dispatched, raw, tprs, errs>>

\* QueryConfigBlock: err != nil && len(tprs) == 0.
QueryChaincodeFailed ==
    /\ pc = "Filtered"
    /\ op = ConfigOp
    /\ errs # NilErr /\ Len(tprs) = 0
    /\ result' = Returned(<<>>, WithMessage(errs, "queryChaincode failed"))
    /\ pc' = "Failed"
    /\ UNCHANGED <<chName, op, args, candidates, maxTargets, targets, verifier,
                   dispatched, raw, tprs, errs>>

\* QueryConfigBlock going on to the extraction whatever verifier.Match returns.
MatchResponsesIgnored ==
    /\ pc = "Filtered"
    /\ op = ConfigOp
    /\ ~(errs # NilErr /\ Len(tprs) = 0)
    /\ IF verifier = NilVerifier
       THEN pc' = "Panicked" /\ result' = Panic
       ELSE pc' = "Matched" /\ result' = result
    /\ UNCHANGED <<chName, op, args, candidates, maxTargets, targets, verifier,
                   dispatched, raw, tprs, errs>>

\* QueryConfigBlock: matchErr := verifier.Match(tprs), returned when not nil.  A
\* nil verifier panics.
MatchResponses ==
    /\ pc = "Filtered"
    /\ op = ConfigOp
    /\ ~(errs # NilErr /\ Len(tprs) = 0)
    /\ IF verifier = NilVerifier
       THEN pc' = "Panicked" /\ result' = Panic
       ELSE IF Match(verifier, tprs) # NilErr
       THEN pc' = "MatchFailed" /\ result' = Returned(<<>>, Match(verifier, tprs))
       ELSE pc' = "Matched" /\ result' = result
    /\ UNCHANGED <<chName, op, args, candidates, maxTargets, targets, verifier,
                   dispatched, raw, tprs, errs>>

\* The extraction started on the filtered set before Match was asked.
ExtractConfigUnmatched ==
    /\ pc \in {"Filtered", "Matched"}
    /\ op = ConfigOp
    /\ LET e == ExtractFirst(tprs) IN
         /\ pc' = CASE e.out = "ok" -> "Extracted"
                    [] e.out = "err" -> "ExtractFailed"
                    [] OTHER -> "Panicked"
         /\ result' = CASE e.out = "ok" -> Returned(<<e.cfg>>, NilErr)
                        [] e.out = "err" -> Returned(<<>>, e.err)
                        [] OTHER -> Panic
    /\ UNCHANGED <<chName, op, args, candidates, maxTargets, targets, verifier,
                   dispatched, raw, tprs, errs>>

\* QueryConfigBlock: the first filtered response is unwrapped and returned.
ExtractConfig ==
    /\ pc = "Matched"
    /\ LET e == ExtractFirst(tprs) IN
         /\ pc' = CASE e.out = "ok" -> "Extracted"
                    [] e.out = "err" -> "ExtractFailed"
                    [] OTHER -> "Panicked"
         /\ result' = CASE e.out = "ok" -> Returned(<<e.cfg>>, NilErr)
                        [] e.out = "err" -> Returned(<<>>, e.err)
                        [] OTHER -> Panic
    /\ UNCHANGED <<chName, op, args, candidates, maxTargets, targets, verifier,
                   dispatched, raw, tprs, errs>>

Terminal == {"Failed", "Decoded", "MatchFailed", "Extracted", "ExtractFailed", "Panicked"}

\* The call is over: nothing of it outlives it.
Return ==
    /\ pc \in Terminal
    /\ pc' = "Idle"
    /\ op' = "none"
    /\ args' = NoArgs
    /\ candidates' = <<>>
    /\ maxTargets' = 0
    /\ targets' = <<>>
    /\ verifier' = NilVerifier
    /\ dispatched' = FALSE
    /\ raw' = NoRaw
    /\ tprs' = <<>>
    /\ errs' = NilErr
    /\ result' = NoResult
    /\ UNCHANGED chName

\* The configuration query.
Next ==
    \/ SelectTargets
    \/ RejectInput
    \/ SetupFails
    \/ Dispatch
    \/ Filter
    \/ QueryChaincodeFailed
    \/ MatchResponses
    \/ ExtractConfig
    \/ Return

Spec == Init /\ [][Next]_vars

\* The multi-target read queries.
NextRead ==
    \/ NewLedger
    \/ CallRead
    \/ RejectInput
    \/ SetupFails
    \/ Dispatch
    \/ Filter
    \/ Decode
    \/ Return

SpecRead == Init /\ [][NextRead]_vars

(***************************************************************************)
(* Properties.                                                             *)
(***************************************************************************)
\* A raw response passes the filter: status 200 and, with a verifier, Verify.
Passes(r) == r.Status = StatusOK /\ (verifier = NilVerifier \/ r.Valid)
Rejected(r) == ~Passes(r)
EndorsersOf(rs) == [i \in 1..Len(rs) |-> rs[i].Endorser]
OriginsOf(es) == [i \in 1..Len(es) |-> es[i].from]
\* queryChaincode has sent the proposal and filtered what came back.
HasFiltered == dispatched /\ pc # "Dispatched"

\* C1: filterResponses returns exactly the raw responses that have status 200 and
\* pass Verify (every status-200 response without a verifier), in their order, and
\* the error it returns is the error it was given followed by one entry per
\* rejected response, in order, each naming the endorser of that response: no
\* response after a rejected one is left unprocessed.
C1_FilterKeepsExactlyPassing ==
    HasFiltered =>
        /\ tprs = SelectSeq(raw.responses, Passes)
        /\ Len(errs) = Len(raw.errs) + Len(SelectSeq(raw.responses, Rejected))
        /\ SubSeq(errs, 1, Len(raw.errs)) = raw.errs
        /\ OriginsOf(SubSeq(errs, Len(raw.errs) + 1, Len(errs)))
             = EndorsersOf(SelectSeq(raw.responses, Rejected))
        /\ \A i \in (Len(raw.errs) + 1)..Len(errs) :
             errs[i].kind \in {"bad status", "failed to verify response"}

\* A batch with a verifier in which a bad status and a verify failure come before
\* a response that is kept.
C1_Witness ==
    /\ pc = "Filtered"
    /\ verifier # NilVerifier
    /\ \E i, j, k \in 1..Len(raw.responses) :
         /\ i < k /\ j < k
         /\ raw.responses[i].Status # StatusOK
         /\ raw.responses[j].Status = StatusOK /\ ~raw.responses[j].Valid
         /\ Passes(raw.responses[k])

\* C2: a configuration query called with no target ends with the error
\* "target(s) required" and no artifact, and never sends a proposal.
C2_NoTargetsNoDispatch ==
    (op = ConfigOp /\ Len(targets) = 0 /\ pc # "TargetsSelected") =>
        /\ pc = "Failed"
        /\ result = Returned(<<>>, NewError("target(s) required"))
        /\ ~dispatched
        /\ raw = NoRaw

C2_Witness == op = ConfigOp /\ Len(targets) = 0 /\ pc = "Failed"

\* The errors of the quorum verifier's Match.
QuorumErrors ==
    {NewError("no responses to match"), NewError("minimum responses not reached"),
     NewError("responses do not match")}
\* A configuration query with a quorum verifier has returned after the dispatch
\* with fewer filtered responses than minResponses.
BelowQuorum ==
    /\ op = ConfigOp
    /\ verifier.kind = "quorum"
    /\ dispatched
    /\ pc \in Terminal
    /\ Len(tprs) < verifier.MinResponses

\* C3 as stated: below minResponses the configuration query fails with a quorum
\* error and returns no configuration.
C3_QuorumErrorBelowMin ==
    BelowQuorum => result.artifacts = <<>> /\ result.err \in QuorumErrors

\* C3, amended: below minResponses (counted over the filtered responses) the
\* configuration query returns no configuration and an error: "queryChaincode
\* failed" around the aggregated per-target errors when no response survived and
\* some target failed, and the quorum error of Match otherwise.
C3_FailsBelowMin ==
    BelowQuorum =>
        /\ result.artifacts = <<>>
        /\ ~result.panicked
        /\ IF Len(tprs) = 0 /\ errs # NilErr
           THEN pc = "Failed" /\ result.err = WithMessage(errs, "queryChaincode failed")
           ELSE /\ pc = "MatchFailed"
                /\ result.err = Match(verifier, tprs)
                /\ result.err \in QuorumErrors

\* As many targets as minResponses were sent to, one valid response survived, and
\* the query failed on the quorum.
C3_Witness ==
    /\ BelowQuorum
    /\ Len(targets) >= verifier.MinResponses
    /\ Len(tprs) = 1
    /\ pc = "MatchFailed"

\* C4: a configuration query moves Idle, TargetsSelected, Dispatched, Filtered in
\* this order; it is Matched only from Filtered and only when Match accepts the
\* filtered set; it is MatchFailed only from Filtered, with the error of Match and no
\* artifact as its result, and then only returns; and it is Extracted or
\* ExtractFailed only from Matched.
C4_MatchBeforeExtract ==
    [][(op' = ConfigOp /\ pc' # pc) =>
         /\ pc' = "TargetsSelected" => pc = "Idle"
         /\ pc' = "Dispatched" => pc = "TargetsSelected"
         /\ pc' = "Filtered" => pc = "Dispatched"
         /\ pc' = "Matched" => pc = "Filtered" /\ Match(verifier, tprs) = NilErr
         /\ pc' = "MatchFailed" =>
              /\ pc = "Filtered"
              /\ Match(verifier, tprs) # NilErr
              /\ result' = Returned(<<>>, Match(verifier, tprs))
         /\ pc' \in {"Extracted", "ExtractFailed"} => pc = "Matched"]_vars
    /\ [][pc = "MatchFailed" => pc' \in {"MatchFailed", "Idle"}]_vars

\* A configuration was extracted from a filtered set of two responses.
C4_Witness == op = ConfigOp /\ pc = "Extracted" /\ Len(tprs) = 2

\* The first data entry of the block of the first filtered response, once
\* QueryConfigBlock has called createConfigEnvelope on it.
ExtractionRan ==
    /\ op = ConfigOp
    /\ pc \in {"Extracted", "ExtractFailed", "Panicked"}
    /\ verifier # NilVerifier
    /\ Len(tprs) > 0
    /\ tprs[1].Payload.msg = "Block"
    /\ tprs[1].Payload.Data # NilBlockData
    /\ Len(tprs[1].Payload.Data.Data) > 0
FirstEntry == tprs[1].Payload.Data.Data[1]
\* The layers of a data entry that decode.
EnvelopeDecodes(d) == d.msg = "Envelope"
PayloadDecodes(d) == EnvelopeDecodes(d) /\ d.Payload.msg = "Payload"
ChannelHeaderDecodes(d) ==
    /\ PayloadDecodes(d)
    /\ d.Payload.Header # NilHeader
    /\ d.Payload.Header.ChannelHeader.msg = "ChannelHeader"
ConfigEnvelopeDecodes(d) == PayloadDecodes(d) /\ d.Payload.Data.msg = "ConfigEnvelope"
HeaderTypeOf(d) == d.Payload.Header.ChannelHeader.Type

\* C5 as stated: when the Envelope, Payload and ChannelHeader layers decode and the
\* type is CONFIG, the extraction returns a ConfigEnvelope and no error.
C5_ConfigTypeAlwaysExtracts ==
    (ExtractionRan /\ ChannelHeaderDecodes(FirstEntry)
       /\ HeaderTypeOf(FirstEntry) = HeaderType_CONFIG) =>
        /\ pc = "Extracted"
        /\ Len(result.artifacts) = 1
        /\ result.err = NilErr

\* C5, amended: when the Envelope, Payload, ChannelHeader and ConfigEnvelope layers
\* decode and the type is CONFIG, the extraction returns that ConfigEnvelope and no
\* error; when the Envelope, Payload and ChannelHeader layers decode and the type is
\* not CONFIG, it returns "block must be of type 'CONFIG'" and no artifact.
C5_ExtractsConfigType ==
    (ExtractionRan /\ ChannelHeaderDecodes(FirstEntry)) =>
        /\ (HeaderTypeOf(FirstEntry) = HeaderType_CONFIG /\ ConfigEnvelopeDecodes(FirstEntry)) =>
              /\ pc = "Extracted"
              /\ result = Returned(<<[Config |-> FirstEntry.Payload.Data.Config]>>, NilErr)
        /\ HeaderTypeOf(FirstEntry) # HeaderType_CONFIG =>
              /\ pc = "ExtractFailed"
              /\ result = Returned(<<>>, NewError("block must be of type 'CONFIG'"))

\* A block whose every layer decodes, of another type than CONFIG, was refused.
C5_Witness ==
    /\ ExtractionRan
    /\ ChannelHeaderDecodes(FirstEntry)
    /\ ConfigEnvelopeDecodes(FirstEntry)
    /\ HeaderTypeOf(FirstEntry) # HeaderType_CONFIG
    /\ pc = "ExtractFailed"

\* The target an artifact of a read query was decoded from (the body of a
\* well-formed answer is its target's own).
BodyOf(a) == IF "BCI" \in DOMAIN a THEN a.BCI.body ELSE a.body
Count(s, Test(_)) == Cardinality({i \in 1..Len(s) : Test(s[i])})

\* C6: when a read query has sent its proposal and returned, every target
\* contributed exactly one item, an artifact or an entry of the aggregated error:
\* the two lists together are as long as the target list, and the artifact of
\* every target whose response passed the filter and decodes is in the result.
C6_OneItemPerTarget ==
    (op \in ReadOps /\ pc = "Decoded" /\ dispatched) =>
        /\ Len(result.artifacts) + Len(result.err) = Len(targets)
        /\ \A t \in Range(targets) :
             LET FromT(e) == e.from = t
                 OfT(a) == BodyOf(a) = t
             IN Count(result.err, FromT) + Count(result.artifacts, OfT) = 1
        /\ \A i \in 1..Len(raw.responses) :
             LET r == raw.responses[i]
                 OfR(a) == BodyOf(a) = r.Endorser
             IN (Passes(r) /\ r.Payload.msg = MessageOf(op)) =>
                    Count(result.artifacts, OfR) = 1

\* Three targets, one with a bad status after a valid one: two artifacts and one
\* error entry.
C6_Witness ==
    /\ op \in ReadOps /\ pc = "Decoded" /\ dispatched
    /\ Len(targets) = 3
    /\ Len(result.artifacts) = 2
    /\ Len(result.err) = 1
    /\ result.err[1].kind = "bad status"
    /\ raw.responses[2].Status # StatusOK

MissingIdentifier ==
    \/ op = "QueryBlockByHash" /\ args.blockHash \in {"nil", "empty"}
    \/ op \in {"QueryBlockByTxID", "QueryTransaction"} /\ args.txID = ""
    \/ op \in ReadOps /\ chName = ""

\* C8: a query that lacks a required identifier sends its proposal to no target,
\* and returns an error and no artifact.
C8_RejectsMissingIdentifier ==
    MissingIdentifier =>
        /\ ~(dispatched /\ targets # <<>>)
        /\ pc \in Terminal => result.artifacts = <<>> /\ result.err # NilErr

\* The targets that failed in the call: no answer, or an answer that was
\* filtered out.
FailedTargets == Range(targets) \ Range(EndorsersOf(tprs))
\* The error names target t, itself or in the error it wraps.
Names(err, t) ==
    \E i \in 1..Len(err) :
        \/ err[i].from = t
        \/ \E j \in 1..Len(err[i].cause) : err[i].cause[j].from = t

\* C9: the error returned alongside a result names every target that failed in
\* the call; in particular it is not nil when a target failed.
C9_FailuresReturnedWithResult ==
    (pc \in Terminal /\ dispatched /\ result.artifacts # <<>>) =>
        \A t \in FailedTargets : Names(result.err, t)

\* C10: every artifact a read query returns carries the identity and the status
\* code of the target it came from.
C10_ArtifactsCarryOrigin ==
    (op \in ReadOps /\ pc = "Decoded") =>
        \A i \in 1..Len(result.artifacts) :
            LET a == result.artifacts[i] IN
            /\ {"Endorser", "Status"} \subseteq DOMAIN a
            /\ a.Endorser = BodyOf(a)
            /\ a.Status = StatusOK

\* QueryConfigBlock went past verifier.Match and on to the first filtered response.
MatchPassed ==
    /\ op = ConfigOp
    /\ verifier # NilVerifier
    /\ pc \in {"Extracted", "ExtractFailed", "Panicked"}
\* Every unwrap step of the first filtered response decodes: the Block, its first
\* data entry, and the Envelope, Payload, ChannelHeader and ConfigEnvelope layers.
FirstUnwraps ==
    /\ Len(tprs) > 0
    /\ tprs[1].Payload.msg = "Block"
    /\ tprs[1].Payload.Data # NilBlockData
    /\ Len(tprs[1].Payload.Data.Data) > 0
    /\ ChannelHeaderDecodes(FirstEntry)
    /\ ConfigEnvelopeDecodes(FirstEntry)

\* C11: when the first filtered response of a configuration query that passed
\* Match cannot be unwrapped at some step, the call returns an error and no
\* artifact, and ends in no other way.
C11_UnwrapFailureReturnsError ==
    (MatchPassed /\ ~FirstUnwraps) =>
        /\ pc = "ExtractFailed"
        /\ ~result.panicked
        /\ result.artifacts = <<>>
        /\ result.err # NilErr

\* QueryConfigBlock is at, or past, the read of the first filtered response.
ReadsFirst ==
    /\ op = ConfigOp
    /\ verifier # NilVerifier
    /\ pc \in {"Matched", "Extracted", "ExtractFailed", "Panicked"}

\* C12: in a configuration query an empty filtered set comes with a non-nil
\* aggregated error, and the first filtered response is read only when the
\* filtered set is not empty, whatever the verifier.
C12_FirstReadOnNonEmpty ==
    op = ConfigOp =>
        /\ (pc = "Filtered" /\ Len(tprs) = 0) => errs # NilErr
        /\ ReadsFirst => Len(tprs) > 0

\* Under a verifier whose Match accepts every set, one of two targets was
\* filtered out and the first filtered response was read.
C12_Witness ==
    /\ ReadsFirst
    /\ verifier.kind = "any"
    /\ pc # "Matched"
    /\ Len(targets) = 2
    /\ Len(tprs) = 1

\* Under a verifier whose Match accepts every set, every target was filtered out
\* or failed, and the query ended at "queryChaincode failed".
C12_EmptyCaught ==
    /\ op = ConfigOp
    /\ verifier.kind = "any"
    /\ dispatched
    /\ Len(tprs) = 0
    /\ pc = "Failed"
    /\ result.err = WithMessage(errs, "queryChaincode failed")

====
